---- MODULE Spec2Model ----
(***************************************************************************)
(* Model of the battery simulator of p1-reader (battery-sim/src/main.rs):  *)
(* the preparation of the loaded series in main (empty check, sort, check  *)
(* for gaps), the engine run_battery_sim with Strategy::charge_goal, and   *)
(* Report::display_comparison.                                             *)
(*                                                                         *)
(* Numbers.  Every energy, power and efficiency value of the program is an *)
(* f32.  The model keeps binary floating point with round-to-nearest-even  *)
(* after every operation, at a reduced precision: a value is an integer    *)
(* count of 2^-FracBits, and it is representable when its magnitude has at *)
(* most MantBits significant bits.  The exponent range is not bounded from *)
(* above (the inputs are small, no operation overflows), and the sign of   *)
(* zero is not kept.  A division by zero yields an infinity or NaN; these  *)
(* are kept as integers beyond every finite value of the model, and they   *)
(* reach only the bounds of a clamp.  Timestamps are whole seconds (exact  *)
(* integers).                                                              *)
(*                                                                         *)
(* The module also holds the programs around the grid meter, each under a  *)
(* specification of its own: the Modbus service of grid-meter/src/lib.rs   *)
(* with the updates of its two producers (MeterSpec), the reconnect loop   *)
(* of solar-reader/src/main.rs (SolarSpec), and the serial thread, the     *)
(* channel and the main loop of reader/src/main.rs (ReaderSpec).  Under    *)
(* each specification the variables of the other programs stay at rest.    *)
(***************************************************************************)
EXTENDS Integers, Sequences, FiniteSets, TLC

VARIABLES
    pc,           \* position of the program
    entry,        \* "main": the program; "run_battery_sim": the function called on its own
    loaded_data,  \* main's loaded_data / the slice argument of run_battery_sim
    input,        \* the loaded series as it was before main touched it (history)
    scenario,     \* index of the run_battery_sim call main is at (0 when called on its own)
    battery,      \* run_battery_sim: battery
    data_to_go,   \* run_battery_sim: data_to_go
    prev,         \* run_battery_sim: prev
    report,       \* run_battery_sim: report
    last,         \* the values computed by the latest loop iteration (history)
    sum_simmed,   \* sum of simmed_change_in_period over the iterations, exact and
                  \* accumulated in f32 (history)
    steps,        \* number of loop iterations the call has completed (history)
    visited,      \* the positions in the slice of the (prev, curr) pairs the
                  \* iterations have computed with, in order (history)
    energy,       \* the stored energy at the call and the sums of the amounts
                  \* charged and discharged by the iterations so far (history)
    baseline_report,  \* main: baseline_report
    gaps,         \* main: gaps
    largest_gap,  \* main: largest_gap, in seconds
    shown,        \* what the latest display_comparison printed (history)
    instantaneous_data,  \* grid meter: the InstantaneousData behind the mutex
    last_op,      \* grid meter: the latest operation on the shared data, a
                  \* service call with its request and result or an update
                  \* by a producer (history)
    ops,          \* grid meter: number of operations so far (history)
    service,      \* grid meter: the program the service runs in, with the
                  \* measuring_system and serial_number of the service
    solar_pc,     \* solar-reader: position of main and connect_and_run
    connect_elapsed,  \* solar-reader main: connect_time.elapsed(), in seconds
    realtime_data,    \* solar-reader connect_and_run: realtime_data
    result,       \* solar-reader main: result, the value connect_and_run
                  \* returned
    backoff,      \* solar-reader main: backoff
    slept,        \* solar-reader main: the duration of the latest sleep, in
                  \* milliseconds (history)
    channel,      \* reader: the readings in the channel between data_tx and
                  \* data_rx, oldest first, each with its telegram's number
    rx_open,      \* reader: data_rx has not been dropped
    thread,       \* reader: position of the serial_port_reader thread
    reader_pc,    \* reader: position of main's loop
    received,     \* reader main: the reading of the latest recv
    telegrams,    \* reader: what became of each telegram the thread has read,
                  \* in order (history)
    delivered     \* reader: the telegram numbers of the readings main has
                  \* received, in order (history)

\* the variables of the battery simulator
simulator == <<pc, entry, loaded_data, input, scenario, battery, data_to_go, prev,
               report, last, sum_simmed, steps, visited, energy, baseline_report,
               gaps, largest_gap, shown>>

\* the variables of the grid meter
metervars == <<instantaneous_data, last_op, ops, service>>

\* the variables of the programs around the grid meter
\* the variables of solar-reader's reconnect loop
solarvars == <<solar_pc, connect_elapsed, realtime_data, result, backoff, slept>>

\* the variables of reader's pipeline
readervars == <<channel, rx_open, thread, reader_pc, received, telegrams, delivered>>

devvars == <<metervars, solarvars, readervars>>

vars == <<simulator, devvars>>

---------------------------------------------------------------------------
(* Bounds of the model *)

MaxLen == 3
MaxRegular == 4
MantBits == 4
FracBits == 6

---------------------------------------------------------------------------
(* f32 arithmetic at reduced precision *)

RECURSIVE Pow2(_)
Pow2(n) == IF n = 0 THEN 1 ELSE 2 * Pow2(n - 1)

\* 1.0
Unit == Pow2(FracBits)

Abs(x) == IF x < 0 THEN -x ELSE x

\* a / b rounded to the nearest integer, ties to even (a >= 0, b > 0)
RoundHalfEven(a, b) ==
    LET q == a \div b
        r == a % b
    IN  IF 2 * r > b \/ (2 * r = b /\ q % 2 = 1) THEN q + 1 ELSE q

\* the least k with a / (b * 2^k) < 2^MantBits (a >= 0, b > 0)
RECURSIVE Exponent(_, _, _)
Exponent(a, b, k) ==
    IF a \div (b * Pow2(k)) < Pow2(MantBits) THEN k ELSE Exponent(a, b, k + 1)

\* the representable value nearest to the rational a / b (b > 0)
Round(a, b) ==
    LET k == Exponent(Abs(a), b, 0)
        m == RoundHalfEven(Abs(a), b * Pow2(k))
    IN  IF a < 0 THEN -(m * Pow2(k)) ELSE m * Pow2(k)

FAdd(x, y) == Round(x + y, 1)
FSub(x, y) == Round(x - y, 1)
FMul(x, y) == Round(x * y, Unit)
\* +infinity: above every finite value of the model
Inf == Pow2(30)

\* NaN: equal to no finite value; every comparison with it is false
NaN == Inf + 1

\* x / y; x / 0.0 is NaN for x = 0 and an infinity of the sign of x otherwise
FDiv(x, y) ==
    IF y = 0 THEN (IF x = 0 THEN NaN ELSE IF x > 0 THEN Inf ELSE -Inf)
    ELSE IF y < 0 THEN Round(-(x * Unit), -y) ELSE Round(x * Unit, y)

\* the literal n/d as an f32
Lit(n, d) == Round(n * Unit, d)

\* Clamp with the lower bound left out
Clamp_IgnoresMin(x, min, max) == IF x > max THEN max ELSE x

\* f32::clamp(self, min, max); it asserts min <= max, which is false when
\* either is NaN
ClampPanics(min, max) == min = NaN \/ max = NaN \/ ~(min <= max)
Clamp(x, min, max) == IF x < min THEN min ELSE IF x > max THEN max ELSE x

---------------------------------------------------------------------------
(* Data: ElectricityData, Battery, Report, Strategy *)

\* kwh balance, positive for import, negative for export
kwh_balance(d) ==
    FSub(FSub(FAdd(d.kwh_import_total_tarif_low, d.kwh_import_total_tarif_high),
              d.kwh_export_total_tarif_high),
         d.kwh_export_total_tarif_low)

Strategy == {"NetZero"}

\* charge_goal returning the change in the period itself, not negated
charge_goal_NotNegated(strategy, previous_situation, current_situation) ==
    CASE strategy = "NetZero" ->
        FSub(kwh_balance(current_situation), kwh_balance(previous_situation))

\* kWh, if positive charge, if negative discharge
charge_goal(strategy, previous_situation, current_situation) ==
    CASE strategy = "NetZero" ->
        LET change_in_period ==
                FSub(kwh_balance(current_situation), kwh_balance(previous_situation))
        IN  -change_in_period

\* TimeDelta::minutes(1), in seconds
Minute == 60

\* (curr.time - prev.time).as_seconds_f32() / 3600.0
TimediffH(p, c) == FDiv(Lit(c.time - p.time, 1), Lit(3600, 1))

ZeroReport == [total_import |-> 0, total_export |-> 0]

\* Report::IMPORT_COST and Report::EXPORT_COST
IMPORT_COST == Lit(1, 4)
EXPORT_COST == Lit(-1, 100)

\* self.total_import * IMPORT_COST + self.total_export * EXPORT_COST
cost(r) ==
    FAdd(FMul(r.total_import, IMPORT_COST), FMul(r.total_export, EXPORT_COST))

\* the rational n / d in hundredths, rounded to the nearest, ties to even
Hundredths(n, d) ==
    IF n < 0 THEN -RoundHalfEven(100 * (-n), d) ELSE RoundHalfEven(100 * n, d)

\* an f32 printed with {:.2}, in hundredths
Fmt2(x) == Hundredths(x, Unit)

\* Report::display_comparison: the six numbers printed, with the two reports
display_comparison(self, baseline) ==
    [taken |-> TRUE, self |-> self, baseline |-> baseline,
     import |-> Fmt2(self.total_import),
     import_delta |-> Fmt2(FSub(self.total_import, baseline.total_import)),
     export |-> Fmt2(self.total_export),
     export_delta |-> Fmt2(FSub(self.total_export, baseline.total_export)),
     cost |-> Fmt2(cost(self)),
     cost_delta |->
         Fmt2(FSub(FAdd(FSub(FMul(self.total_export, EXPORT_COST),
                             FMul(baseline.total_export, EXPORT_COST)),
                        FMul(self.total_import, IMPORT_COST)),
                   FMul(baseline.total_import, IMPORT_COST)))]

NoComparison == [taken |-> FALSE]

Meter(il, ih, el, eh) ==
    [kwh_import_total_tarif_low |-> il, kwh_import_total_tarif_high |-> ih,
     kwh_export_total_tarif_low |-> el, kwh_export_total_tarif_high |-> eh]

Reading(t, m) == [time |-> t] @@ m

NoReading == Reading(0, Meter(0, 0, 0, 0))

NoStep == [taken |-> FALSE]

ZeroSum == [exact |-> 0, f32 |-> 0]

\* nothing charged or discharged yet by the call with battery b
NoEnergy(b) == [initial |-> b.stored, charged |-> 0, discharged |-> 0]

---------------------------------------------------------------------------
(* The inputs the model draws from *)

\* timestamps, in seconds: 0 to 30 is under a minute, 30 to 90 is one minute,
\* 0 to 90 is longer; equal timestamps come from drawing one twice
Times == {0, 30, 90}

\* cumulative counters (import low, import high, export low, export high)
Meters ==
    { Meter(Lit(1, 32), Lit(1, 64), 0, 0),
      Meter(Lit(1, 2), 0, Lit(1, 4), 0),
      Meter(Lit(1, 1), Lit(1, 4), Lit(1, 8), Lit(1, 8)) }

\* the counters of the series drawn in any order
ShortMeters ==
    { Meter(Lit(1, 32), Lit(1, 64), 0, 0),
      Meter(Lit(1, 1), Lit(1, 4), Lit(1, 8), Lit(1, 8)) }

\* the period of a regularly sampled series, in seconds: a minute and a half
Period == Minute + Minute \div 2

\* a series sampled every Period seconds
Regular(ms) == [i \in 1..Len(ms) |-> Reading((i - 1) * Period, ms[i])]

\* a series sampled unevenly: 5, 6, 60 and 69 seconds between the readings
Sampled ==
    << Reading(0, Meter(0, 0, 0, 0)),
       Reading(5, Meter(Lit(1, 8), Lit(1, 4), 0, 0)),
       Reading(11, Meter(Lit(3, 4), Lit(1, 4), 0, 0)),
       Reading(71, Meter(Lit(1, 1), Lit(5, 8), 0, 0)),
       Reading(140, Meter(Lit(1, 1), Lit(7, 8), Lit(1, 1), Lit(3, 4))) >>

\* the readings of s at the indices in T from i on, in the order of s
RECURSIVE Pick(_, _, _)
Pick(s, T, i) ==
    IF i > Len(s) THEN <<>>
    ELSE (IF i \in T THEN <<s[i]>> ELSE <<>>) \o Pick(s, T, i + 1)

Readings ==
    {Reading(t, m) : t \in Times \cup {i * Period : i \in 0..(MaxRegular - 1)},
                     m \in Meters}
    \cup {Sampled[i] : i \in 1..Len(Sampled)}

\* every series of up to MaxLen readings, in any order, the regularly sampled
\* series of up to MaxRegular readings, and the unevenly sampled series with
\* any of its readings left out
Inputs ==
    UNION {[1..n -> {Reading(t, m) : t \in Times, m \in ShortMeters}] : n \in 0..MaxLen}
    \cup {Regular(ms) : ms \in UNION {[1..n -> Meters] : n \in (MaxLen + 1)..MaxRegular}}
    \cup {Pick(Sampled, T, 1) : T \in SUBSET (1..Len(Sampled))}

Battery(stored, capacity, max_charging_rate, max_discharging_rate, efficiency) ==
    [stored |-> stored, capacity |-> capacity,
     max_charging_rate |-> max_charging_rate,
     max_discharging_rate |-> max_discharging_rate,
     efficiency |-> efficiency]

\* the battery of main's baseline run
Baseline == Battery(0, 0, 0, 0, Lit(1, 1))

\* the batteries of main's runs: the baseline, then scenarios shaped as main's
\* (stored 0, efficiency 0.95, equal rates)
Scenarios ==
    << Baseline,
       Battery(0, Lit(1, 10), Lit(5, 1), Lit(5, 1), Lit(95, 100)),
       Battery(0, Lit(1, 1), Lit(5, 1), Lit(5, 1), Lit(95, 100)) >>

\* the batteries run_battery_sim is called with on its own: capacity >= 0,
\* 0 <= stored <= capacity, rates >= 0, 0 < efficiency <= 1
Batteries ==
    { Baseline,
      Battery(0, 0, 0, 0, Lit(95, 100)),
      Battery(0, Lit(1, 10), Lit(5, 1), Lit(5, 1), Lit(95, 100)),
      Battery(Lit(1, 1), Lit(1, 1), Lit(60, 1), Lit(60, 1), Lit(95, 100)),
      Battery(0, Lit(2, 5), Lit(60, 1), Lit(60, 1), Lit(3, 4)),
      Battery(Lit(1, 4), Lit(1, 2), Lit(60, 1), 0, Lit(1, 1)),
      Battery(Lit(1, 4), Lit(1, 2), 0, Lit(60, 1), Lit(1, 1)),
      Battery(Lit(1, 5), Lit(1, 2), 0, Lit(60, 1), Lit(3, 4)) }

\* batteries with efficiency 0 and no capacity, with and without rates
Degenerate ==
    { Battery(0, 0, 0, 0, 0),
      Battery(0, 0, Lit(5, 1), Lit(5, 1), 0) }

---------------------------------------------------------------------------
(* main: the preparation of the series *)

\* loaded_data.is_sorted_by_key(|data| data.time)
is_sorted_by_key(s) == \A i \in 1..(Len(s) - 1) : s[i].time <= s[i + 1].time

IndexPermutations(n) == {p \in [1..n -> 1..n] : \A i, j \in 1..n : i # j => p[i] # p[j]}

\* a sort that orders by the key from latest to earliest
par_sort_Descending(s) ==
    {t \in {[i \in 1..Len(s) |-> s[p[i]]] : p \in IndexPermutations(Len(s))} :
        \A i \in 1..(Len(t) - 1) : t[i].time >= t[i + 1].time}

\* par_sort_unstable_by_key(|data| data.time): the slice holds the same elements
\* ordered by the key; the order of elements with equal keys is not determined
par_sort_unstable_by_key(s) ==
    {t \in {[i \in 1..Len(s) |-> s[p[i]]] : p \in IndexPermutations(Len(s))} :
        is_sorted_by_key(t)}

\* TimeDelta::milliseconds(5000), in seconds
GapThreshold == 5

\* a time difference of the threshold itself taken for a gap too
IsGap_AtThreshold(timediff) == timediff >= GapThreshold

\* line 89: timediff > TimeDelta::milliseconds(5000)
IsGap(timediff) == timediff > GapThreshold

Max(a, b) == IF a >= b THEN a ELSE b

\* lines 85-93: the loop over loaded_data.windows(2) from window i on, with the
\* gaps and the largest gap found so far
RECURSIVE CheckGaps(_, _, _)
CheckGaps(s, i, found) ==
    IF i >= Len(s) THEN found
    ELSE LET timediff == s[i + 1].time - s[i].time
         IN  CheckGaps(s, i + 1,
                       IF IsGap(timediff)
                         THEN [gaps |-> found.gaps + 1,
                               largest_gap |-> Max(found.largest_gap, timediff)]
                         ELSE found)

\* the sort run whether or not the slice is ordered already
Prepare_AlwaysSorts(s) == par_sort_unstable_by_key(s)

\* main, lines 77-82: the slices the preparation can leave behind; the sort
\* runs only when the slice is not ordered by time already
Prepare(s) ==
    IF ~is_sorted_by_key(s) THEN par_sort_unstable_by_key(s) ELSE {s}

---------------------------------------------------------------------------
(* The grid meter: InstantaneousData, the requests, the producers' inputs *)

\* number of operations on the shared data a behaviour of the grid meter has
MaxOps == 3

\* grid-meter lib.rs 40-101: InstantaneousData::default().  The model keeps
\* the fields a producer or the service writes and the fields the sums are
\* taken of; the remaining fields stay at their default and are carried the
\* same way.
DefaultData ==
    [v_l1_n |-> 0, w_l1 |-> 0, w_l2 |-> 0, w_l3 |-> 0, w_sum |-> 0,
     kwh_plus_total |-> 0, kwh_plus_l1 |-> 0, kwh_plus_l2 |-> 0,
     kwh_plus_l3 |-> 0, kwh_neg_total |-> 0]

\* the fields in the order of the #[repr(C)] struct
FieldOrder ==
    <<"v_l1_n", "w_l1", "w_l2", "w_l3", "w_sum", "kwh_plus_total",
      "kwh_plus_l1", "kwh_plus_l2", "kwh_plus_l3", "kwh_neg_total">>

\* the two u16 words an i32 occupies in memory, low word first (the targets
\* are little endian); a negative value is in two's complement
WordsOfI32(x) ==
    LET low == x % Pow2(16)
    IN <<low, ((x - low) \div Pow2(16)) % Pow2(16)>>

RECURSIVE WordsFrom(_, _)
WordsFrom(data, i) ==
    IF i > Len(FieldOrder) THEN <<>>
    ELSE WordsOfI32(data[FieldOrder[i]]) \o WordsFrom(data, i + 1)

\* lib.rs 138-139: transmute::<_, [u16; 80]>(data), words.to_vec()
Words(data) == WordsFrom(data, 1)

\* lib.rs 195-208: MeasuringSystem as u16
MeasuringSystem ==
    [Setup3PN |-> 0, Setup3P1 |-> 1, Setup2P |-> 2, Setup1P |-> 3, Setup3P |-> 4]

\* b"BY24600320012\0" (solar-reader main.rs 29) and b"BY24600320011\0"
\* (grid-meter-test main.rs 109), as bytes
SerialOfSolarReader == <<66, 89, 50, 52, 54, 48, 48, 51, 50, 48, 48, 49, 50, 0>>
SerialOfTest == <<66, 89, 50, 52, 54, 48, 48, 51, 50, 48, 48, 49, 49, 0>>

\* lib.rs 128-131: serial_number.chunks_exact(2).map(u16::from_be_bytes)
RECURSIVE SerialWords(_)
SerialWords(bytes) ==
    IF Len(bytes) < 2 THEN <<>>
    ELSE <<bytes[1] * Pow2(8) + bytes[2]>> \o SerialWords(SubSeq(bytes, 3, Len(bytes)))

\* The services the programs start: solar-reader main.rs 25-30 passes
\* Setup1P and its serial number; reader main.rs 21 passes neither, its
\* service runs with some measuring system and serial number.
Services ==
    {[program |-> "solar-reader", measuring_system |-> MeasuringSystem.Setup1P,
      serial_number |-> SerialOfSolarReader]}
    \cup {[program |-> "reader", measuring_system |-> m, serial_number |-> SerialOfTest] :
            m \in {MeasuringSystem.Setup3PN, MeasuringSystem.Setup3P}}

Ok(words) == [ok |-> TRUE, words |-> words]
Err(code) == [ok |-> FALSE, code |-> code]

Request(function, addr, cnt) == [function |-> function, addr |-> addr, cnt |-> cnt]

\* lib.rs 118-140: the (address, count) pairs the service answers
Supported ==
    {<<\h000B, 1>>, <<\hA000, 1>>, <<\h0302, 1>>, <<\h0304, 1>>, <<\h1002, 1>>,
     <<\h5000, 7>>, <<\hA100, 1>>, <<\h0000, 80>>}

\* The requests a client sends: the supported reads, a supported address
\* with another count, a supported count at another address, and other
\* function codes at a supported address and count.
Requests ==
    {Request("ReadHoldingRegisters", p[1], p[2]) : p \in Supported}
    \cup {Request("ReadHoldingRegisters", p[1], c) :
            p \in {<<\h0000, 80>>, <<\h5000, 7>>, <<\h1002, 1>>}, c \in {1, 2, 79}}
    \cup {Request("ReadHoldingRegisters", a, c) : a \in {\h0001, \h0109}, c \in {1, 80}}
    \cup {Request(f, \h0000, 80) :
            f \in {"ReadInputRegisters", "WriteSingleRegister", "WriteMultipleRegisters"}}

NoOp == [kind |-> "none"]

\* f32::round (half away from zero) and `as i32`; the values are in range
RoundAsI32(x) ==
    IF x >= 0 THEN (2 * x + Unit) \div (2 * Unit)
    ELSE -((2 * (-x) + Unit) \div (2 * Unit))

\* u16 or u32 `as f32`
AsF32(n) == Lit(n, 1)

\* The readings the serial reader hands to reader's main loop: the fields of
\* ElectricityData the shared data is written from (reader main.rs 43-59).
ElectricityReading(v, ai, ae, il, ih, el, eh) ==
    [voltages |-> v, active_powers_import |-> ai, active_powers_export |-> ae,
     kwh_import_total_tarif_low |-> il, kwh_import_total_tarif_high |-> ih,
     kwh_export_total_tarif_low |-> el, kwh_export_total_tarif_high |-> eh]

ElectricityReadings ==
    {ElectricityReading(<<Lit(230, 1), Lit(224, 1), Lit(240, 1)>>,
                        <<Lit(1, 2), Lit(1, 4), 0>>, <<0, 0, Lit(1, 8)>>,
                        Lit(3, 1), Lit(2, 1), Lit(1, 1), 0),
     ElectricityReading(<<Lit(224, 1), Lit(224, 1), Lit(224, 1)>>,
                        <<0, Lit(1, 8), 0>>, <<Lit(3, 4), 0, 0>>,
                        Lit(3, 1), Lit(5, 2), Lit(3, 2), Lit(1, 2))}

\* The holding registers solar-reader reads from the inverter, by the fields
\* the shared data is written from (solar-reader main.rs 88-105)
RealtimeData ==
    {[l1_voltage |-> 2304, l1_current |-> 16, l1_power |-> 20, total_energy |-> 1200],
     [l1_voltage |-> 2240, l1_current |-> 0, l1_power |-> 0, total_energy |-> 1280]}

(* solar-reader: the backoff and the results of connect_and_run *)

\* solar-reader main.rs 45-50: the ExponentialBackoff main builds, in
\* milliseconds; current_interval starts at the initial interval, and
\* max_elapsed_time is None
ExponentialBackoff ==
    [current_interval |-> 1000, initial_interval |-> 1000, max_interval |-> 300000,
     max_elapsed_time |-> "None"]

\* backoff.reset(): the current interval is the initial interval again
reset(b) == [b EXCEPT !.current_interval = b.initial_interval]

\* the growth of the current interval by the multiplier 1.5 (line 48), up to
\* the maximal interval, in whole milliseconds
increment_current_interval(b) ==
    IF 3 * b.current_interval >= 2 * b.max_interval
    THEN b.max_interval
    ELSE (b.current_interval * 3) \div 2

\* the durations next_backoff can give for a current interval: the interval
\* randomized by the default factor 0.5, at its ends and in the middle
RandomizedIntervals(interval) == {interval \div 2, interval, (interval * 3) \div 2}

\* backoff.next_backoff(): with no maximal elapsed time it is always Some of
\* a randomized current interval, and the current interval grows
next_backoff(b) ==
    {[some |-> TRUE, duration |-> d,
      backoff |-> [b EXCEPT !.current_interval = increment_current_interval(b)]] :
        d \in RandomizedIntervals(b.current_interval)}

\* solar-reader main.rs 144-156: the variants of Error
Errors == {"Io", "Sqlx", "Modbus", "ExceptionCode", "Timeout"}

\* connect_and_run has not returned yet
NoResult == [ok |-> FALSE, code |-> "none"]
NoRegisters == [l1_voltage |-> 0, l1_current |-> 0, l1_power |-> 0, total_energy |-> 0]

\* main.rs 61: a connection longer than this many seconds resets the backoff
LongConnection == 120

\* main.rs 77 and 92: the timeout of the connect and of a read, in seconds
CallTimeout == 60

\* the seconds a connect or a read that completes in time can take, the
\* wait for the tick after a read included
Durations == {0, CallTimeout \div 2, CallTimeout - 1}

\* the elapsed time after d more seconds; beyond LongConnection the value
\* makes no difference and it is kept at LongConnection + 1
Later(elapsed, d) ==
    IF elapsed + d > LongConnection THEN LongConnection + 1 ELSE elapsed + d

(* reader: the channel between the serial thread and main *)

\* the slots of the channel, mpsc::channel(64) at reader main.rs 27, scaled
\* down
ChannelSlots == 2

\* the telegrams the serial thread reads in a behaviour
MaxTelegrams == 4

\* no reading has been received
NoReceived == [number |-> 0]

\* what the thread can get for a telegram (reader main.rs 99-121): a read
\* error, a parse error, a conversion error, or the data
Readouts ==
    {[kind |-> k] : k \in {"ReadError", "ParseError", "DataError"}}
    \cup {[kind |-> "Data", data |-> e] : e \in ElectricityReadings}

\* data_tx.try_send(data) with a full channel giving up its newest slot
try_send_Overwrites(ch, open, item) ==
    IF ~open THEN [channel |-> ch, result |-> Err("Closed")]
    ELSE IF Len(ch) >= ChannelSlots
         THEN [channel |-> Append(SubSeq(ch, 1, Len(ch) - 1), item), result |-> Ok(<<>>)]
         ELSE [channel |-> Append(ch, item), result |-> Ok(<<>>)]

\* data_tx.try_send(data): it never waits; Closed when the receiver is gone,
\* Full when no slot is free, else the item is queued behind the others
try_send(ch, open, item) ==
    IF ~open THEN [channel |-> ch, result |-> Err("Closed")]
    ELSE IF Len(ch) >= ChannelSlots THEN [channel |-> ch, result |-> Err("Full")]
         ELSE [channel |-> Append(ch, item), result |-> Ok(<<>>)]

---------------------------------------------------------------------------
(* The state after construction *)

\* the grid meter before any operation of a program
MeterIdle ==
    /\ instantaneous_data = DefaultData
    /\ last_op = NoOp
    /\ ops = 0
    /\ service = [program |-> "none"]

\* the programs around the grid meter are not running
\* solar-reader is not running
SolarIdle ==
    /\ solar_pc = "off"
    /\ connect_elapsed = 0
    /\ realtime_data = NoRegisters
    /\ result = NoResult
    /\ backoff = ExponentialBackoff
    /\ slept = 0

\* reader is not running
ReaderIdle ==
    /\ channel = <<>>
    /\ rx_open = FALSE
    /\ thread = "off"
    /\ reader_pc = "off"
    /\ received = NoReceived
    /\ telegrams = <<>>
    /\ delivered = <<>>

DevicesIdle == MeterIdle /\ SolarIdle /\ ReaderIdle

Init ==
    /\ entry \in {"main", "run_battery_sim"}
    /\ loaded_data \in Inputs
    /\ input = loaded_data
    /\ pc = IF entry = "main" THEN "main" ELSE "call"
    /\ scenario = 0
    /\ battery \in IF entry = "main" THEN {Baseline} ELSE Batteries \cup Degenerate
    /\ data_to_go = <<>>
    /\ prev = NoReading
    /\ report = ZeroReport
    /\ last = NoStep
    /\ sum_simmed = ZeroSum
    /\ steps = 0
    /\ visited = <<>>
    /\ energy = NoEnergy(battery)
    /\ baseline_report = ZeroReport
    /\ gaps = 0
    /\ largest_gap = 0
    /\ shown = NoComparison
    /\ DevicesIdle

simvars ==
    <<battery, data_to_go, prev, report, last, sum_simmed, steps, visited, energy>>

diagvars == <<gaps, largest_gap, shown>>

---------------------------------------------------------------------------
(* main *)

\* main, lines 72-75: no data, return Ok(())
MainEmpty ==
    /\ pc = "main"
    /\ loaded_data = <<>>
    /\ pc' = "exit"
    /\ UNCHANGED devvars
    /\ UNCHANGED <<entry, loaded_data, input, scenario, simvars, baseline_report,
                   diagvars>>

\* main, lines 77-82: the series is put in order of time
MainSort ==
    /\ pc = "main"
    /\ loaded_data # <<>>
    /\ loaded_data' \in Prepare(loaded_data)
    /\ pc' = "gaps"
    /\ UNCHANGED devvars
    /\ UNCHANGED <<entry, input, scenario, simvars, baseline_report, diagvars>>

\* main, lines 84-94, the check for gaps, and the first call of
\* run_battery_sim (lines 96-107)
MainGaps ==
    /\ pc = "gaps"
    /\ LET found == CheckGaps(loaded_data, 1, [gaps |-> 0, largest_gap |-> 0])
       IN  /\ gaps' = found.gaps
           /\ largest_gap' = found.largest_gap
    /\ scenario' = 1
    /\ battery' = Scenarios[1]
    /\ pc' = "call"
    /\ UNCHANGED devvars
    /\ UNCHANGED <<entry, loaded_data, input, data_to_go, prev, report, last,
                   sum_simmed, steps, visited, energy, baseline_report, shown>>

\* main, after a call of run_battery_sim returned: keep the baseline report
\* (line 97) or display the comparison with it (lines 122, 136, ...), then run
\* the next scenario (lines 108-318) or return (line 320)
MainNext ==
    /\ pc = "returned"
    /\ entry = "main"
    /\ baseline_report' = IF scenario = 1 THEN report ELSE baseline_report
    /\ shown' = IF scenario = 1 THEN shown
                ELSE display_comparison(report, baseline_report)
    /\ IF scenario < Len(Scenarios)
         THEN /\ scenario' = scenario + 1
              /\ battery' = Scenarios[scenario + 1]
              /\ pc' = "call"
         ELSE /\ pc' = "exit"
              /\ UNCHANGED <<scenario, battery>>
    /\ UNCHANGED devvars
    /\ UNCHANGED <<entry, loaded_data, input, data_to_go, prev, report, last,
                   sum_simmed, steps, visited, energy, gaps, largest_gap>>

---------------------------------------------------------------------------
(* run_battery_sim *)

\* the call going on from the report the call before it returned
SimStart_KeepsReport ==
    /\ pc = "call"
    /\ IF loaded_data = <<>>
         THEN /\ pc' = "panic"
              /\ UNCHANGED <<data_to_go, prev>>
         ELSE /\ pc' = "loop"
              /\ data_to_go' = loaded_data
              /\ prev' = loaded_data[1]
    /\ report' = report
    /\ last' = NoStep
    /\ sum_simmed' = ZeroSum
    /\ steps' = 0
    /\ visited' = <<>>
    /\ energy' = NoEnergy(battery)
    /\ UNCHANGED devvars
    /\ UNCHANGED <<entry, loaded_data, input, scenario, battery, baseline_report,
                   diagvars>>

\* lines 359-369: the report starts at zero, prev = &data_to_go[0]
\* (indexing an empty slice panics)
SimStart ==
    /\ pc = "call"
    /\ IF loaded_data = <<>>
         THEN /\ pc' = "panic"
              /\ UNCHANGED <<data_to_go, prev>>
         ELSE /\ pc' = "loop"
              /\ data_to_go' = loaded_data
              /\ prev' = loaded_data[1]
    /\ report' = ZeroReport
    /\ last' = NoStep
    /\ sum_simmed' = ZeroSum
    /\ steps' = 0
    /\ visited' = <<>>
    /\ energy' = NoEnergy(battery)
    /\ UNCHANGED devvars
    /\ UNCHANGED <<entry, loaded_data, input, scenario, battery, baseline_report,
                   diagvars>>

\* a find that accepts every reading not earlier than prev
Found_NoMinute(d, p) == {i \in 1..Len(d) : d[i].time >= p.time}

\* a find that accepts only readings later than a minute after prev
Found_LaterOnly(d, p) == {i \in 1..Len(d) : d[i].time > p.time + Minute}

\* the last of the indices instead of the first
Min_Last(S) == CHOOSE x \in S : \A y \in S : x >= y

\* lines 371-374: the indices of data_to_go the find accepts
Found(d, p) == {i \in 1..Len(d) : d[i].time >= p.time + Minute}

Min(S) == CHOOSE x \in S : \A y \in S : x <= y

\* the goal clamped by the rates only
ClampCharging_RateOnly(b, charging_goal, timediff_h) ==
    Clamp(charging_goal,
          FMul(-b.max_discharging_rate, timediff_h),
          FMul(b.max_charging_rate, timediff_h))

\* lines 379-387: the goal clamped by the rates over the elapsed time, then by
\* the room of the battery
ClampCharging(b, charging_goal, timediff_h) ==
    Clamp(Clamp(charging_goal,
                FMul(-b.max_discharging_rate, timediff_h),
                FMul(b.max_charging_rate, timediff_h)),
          FDiv(-b.stored, b.efficiency),
          FDiv(FSub(b.capacity, b.stored), b.efficiency))

\* the charge applied without the efficiency
ApplyCharging_NoEfficiency(b, clamped_charging) == FAdd(b.stored, clamped_charging)

\* line 389: battery.stored += clamped_charging * battery.efficiency
ApplyCharging(b, clamped_charging) ==
    FAdd(b.stored, FMul(clamped_charging, b.efficiency))

\* a change of zero taken as import
ImportBranch_ZeroIncluded(simmed_change_in_period) == simmed_change_in_period >= 0

\* line 394: if simmed_change_in_period > 0.0
ImportBranch(simmed_change_in_period) == simmed_change_in_period > 0

\* the export branch adding the (non-positive) change instead of subtracting it
Accumulate_ExportAdds(r, simmed_change_in_period) ==
    IF ImportBranch(simmed_change_in_period)
      THEN [r EXCEPT !.total_import = FAdd(@, simmed_change_in_period)]
      ELSE [r EXCEPT !.total_export = FAdd(@, simmed_change_in_period)]

\* lines 394-398: the simulated change goes to the import or to the export
Accumulate(r, simmed_change_in_period) ==
    IF ImportBranch(simmed_change_in_period)
      THEN [r EXCEPT !.total_import = FAdd(@, simmed_change_in_period)]
      ELSE [r EXCEPT !.total_export = FSub(@, simmed_change_in_period)]

\* lines 376-398: what one iteration computes from prev, curr and the battery
Iteration(b, p, c, r) ==
    LET charging_goal == charge_goal("NetZero", p, c)
        timediff_h == TimediffH(p, c)
        rate_min == FMul(-b.max_discharging_rate, timediff_h)
        rate_max == FMul(b.max_charging_rate, timediff_h)
        cap_min == FDiv(-b.stored, b.efficiency)
        cap_max == FDiv(FSub(b.capacity, b.stored), b.efficiency)
        clamped_charging == ClampCharging(b, charging_goal, timediff_h)
        real_change_in_period == FSub(kwh_balance(c), kwh_balance(p))
        simmed_change_in_period == FAdd(real_change_in_period, clamped_charging)
        panics == ClampPanics(rate_min, rate_max) \/ ClampPanics(cap_min, cap_max)
    IN  IF panics THEN [taken |-> TRUE, panics |-> TRUE]
        ELSE
        [taken |-> TRUE, panics |-> FALSE,
         prev |-> p, curr |-> c,
         charging_goal |-> charging_goal, timediff_h |-> timediff_h,
         rate_min |-> rate_min, rate_max |-> rate_max,
         cap_min |-> cap_min, cap_max |-> cap_max,
         clamped_charging |-> clamped_charging,
         stored_before |-> b.stored,
         stored |-> ApplyCharging(b, clamped_charging),
         real_change_in_period |-> real_change_in_period,
         simmed_change_in_period |-> simmed_change_in_period,
         branch |-> IF ImportBranch(simmed_change_in_period) THEN "import"
                    ELSE "export",
         report_before |-> r,
         report |-> Accumulate(r, simmed_change_in_period)]

\* lines 371-402: one iteration of the while-let loop
SimStep ==
    /\ pc = "loop"
    /\ Found(data_to_go, prev) # {}
    /\ LET i == Min(Found(data_to_go, prev))
           curr == data_to_go[i]
           it == Iteration(battery, prev, curr, report)
       IN  IF it.panics
             THEN /\ pc' = "panic"
                  /\ UNCHANGED <<simvars>>
             ELSE /\ battery' = [battery EXCEPT !.stored = it.stored]
                  /\ report' = it.report
                  /\ prev' = curr
                  /\ data_to_go' = SubSeq(data_to_go, i, Len(data_to_go))
                  /\ last' = it
                  /\ sum_simmed' =
                         [exact |-> sum_simmed.exact + it.simmed_change_in_period,
                          f32 |-> FAdd(sum_simmed.f32, it.simmed_change_in_period)]
                  /\ steps' = steps + 1
                  /\ visited' =
                         Append(visited,
                                <<Len(loaded_data) - Len(data_to_go) + 1,
                                  Len(loaded_data) - Len(data_to_go) + i>>)
                  /\ energy' =
                         [energy EXCEPT
                            !.charged = @ + Max(it.clamped_charging, 0),
                            !.discharged = @ + Max(-it.clamped_charging, 0)]
                  /\ pc' = "loop"
    /\ UNCHANGED devvars
    /\ UNCHANGED <<entry, loaded_data, input, scenario, baseline_report, diagvars>>

\* lines 371-375 and 404: the find yields None, the report is returned
SimReturn ==
    /\ pc = "loop"
    /\ Found(data_to_go, prev) = {}
    /\ pc' = "returned"
    /\ UNCHANGED devvars
    /\ UNCHANGED <<entry, loaded_data, input, scenario, simvars, baseline_report,
                   diagvars>>

Next ==
    MainEmpty \/ MainSort \/ MainGaps \/ MainNext \/ SimStart \/ SimStep \/ SimReturn

Spec == Init /\ [][Next]_vars

---------------------------------------------------------------------------
(* The grid meter service and the producers of its data *)

\* the battery simulator is not running
SimulatorIdle ==
    /\ entry = "none"
    /\ pc = "off"
    /\ loaded_data = <<>>
    /\ input = <<>>
    /\ scenario = 0
    /\ battery = Baseline
    /\ data_to_go = <<>>
    /\ prev = NoReading
    /\ report = ZeroReport
    /\ last = NoStep
    /\ sum_simmed = ZeroSum
    /\ steps = 0
    /\ visited = <<>>
    /\ energy = NoEnergy(Baseline)
    /\ baseline_report = ZeroReport
    /\ gaps = 0
    /\ largest_gap = 0
    /\ shown = NoComparison

\* lib.rs 135-139: lock, data.w_l1 += 10, clone, transmute to the words
ReadBlock(data) ==
    LET changed == [data EXCEPT !.w_l1 = @ + 10]
    IN [data |-> changed, result |-> Ok(Words(changed))]

\* lib.rs 115-152 with the count of a holding register read ignored
call_AnyCount(data, measuring_system, serial_number, req) ==
    IF req.function = "ReadHoldingRegisters"
    THEN CASE req.addr = \h000B -> [data |-> data, result |-> Ok(<<\h0670>>)]
           [] req.addr = \hA000 -> [data |-> data, result |-> Ok(<<\h0007>>)]
           [] req.addr = \h0302 -> [data |-> data, result |-> Ok(<<\h101E>>)]
           [] req.addr = \h0304 -> [data |-> data, result |-> Ok(<<\h101E>>)]
           [] req.addr = \h1002 -> [data |-> data, result |-> Ok(<<measuring_system>>)]
           [] req.addr = \h5000 -> [data |-> data, result |-> Ok(SerialWords(serial_number))]
           [] req.addr = \hA100 -> [data |-> data, result |-> Ok(<<\h0000>>)]
           [] req.addr = \h0000 -> ReadBlock(data)
           [] OTHER -> [data |-> data, result |-> Err("IllegalFunction")]
    ELSE [data |-> data, result |-> Err("IllegalFunction")]

\* lib.rs 115-152: GridMeterService::call; the shared data after the call
\* and the response
call(data, measuring_system, serial_number, req) ==
    IF req.function = "ReadHoldingRegisters"
    THEN CASE <<req.addr, req.cnt>> = <<\h000B, 1>> ->
                [data |-> data, result |-> Ok(<<\h0670>>)]
           [] <<req.addr, req.cnt>> = <<\hA000, 1>> ->
                [data |-> data, result |-> Ok(<<\h0007>>)]
           [] <<req.addr, req.cnt>> = <<\h0302, 1>> ->
                [data |-> data, result |-> Ok(<<\h101E>>)]
           [] <<req.addr, req.cnt>> = <<\h0304, 1>> ->
                [data |-> data, result |-> Ok(<<\h101E>>)]
           [] <<req.addr, req.cnt>> = <<\h1002, 1>> ->
                [data |-> data, result |-> Ok(<<measuring_system>>)]
           [] <<req.addr, req.cnt>> = <<\h5000, 7>> ->
                [data |-> data, result |-> Ok(SerialWords(serial_number))]
           [] <<req.addr, req.cnt>> = <<\hA100, 1>> ->
                [data |-> data, result |-> Ok(<<\h0000>>)]
           [] <<req.addr, req.cnt>> = <<\h0000, 80>> -> ReadBlock(data)
           [] OTHER -> [data |-> data, result |-> Err("IllegalFunction")]
    ELSE [data |-> data, result |-> Err("IllegalFunction")]

\* reader main.rs 43-59: the update of the shared data under the lock
ReaderWrite(data, e) ==
    LET w(i) == RoundAsI32(FMul(FSub(e.active_powers_import[i],
                                     e.active_powers_export[i]), Lit(10000, 1)))
    IN [data EXCEPT
          !.v_l1_n = RoundAsI32(FMul(e.voltages[1], Lit(10, 1))),
          !.w_l1 = w(1),
          !.w_l2 = w(2),
          !.w_l3 = w(3),
          !.w_sum = w(1) + w(2) + w(3),
          !.kwh_plus_total =
              RoundAsI32(FMul(FAdd(e.kwh_import_total_tarif_high,
                                   e.kwh_import_total_tarif_low), Lit(10, 1))),
          !.kwh_neg_total =
              RoundAsI32(FMul(FAdd(e.kwh_export_total_tarif_high,
                                   e.kwh_export_total_tarif_low), Lit(10, 1)))]

\* solar-reader main.rs 124-140: the update of the shared data under the lock
SolarWrite(data, r) ==
    LET l1_voltage == FDiv(AsF32(r.l1_voltage), Lit(10, 1))
        l1_power == AsF32(r.l1_power)
        total_energy == FDiv(AsF32(r.total_energy), Lit(100, 1))
        w_l1 == RoundAsI32(FMul(l1_power, Lit(10, 1)))
        kwh_plus_l1 == RoundAsI32(FMul(total_energy, Lit(10, 1)))
    IN [data EXCEPT
          !.v_l1_n = RoundAsI32(FMul(l1_voltage, Lit(10, 1))),
          !.w_l1 = w_l1,
          !.w_sum = w_l1 + data.w_l2 + data.w_l3,
          !.kwh_plus_l1 = kwh_plus_l1,
          !.kwh_plus_total = kwh_plus_l1 + data.kwh_plus_l2 + data.kwh_plus_l3]

\* a program starts its service on the default data (reader main.rs 14-25,
\* solar-reader main.rs 18-33)
MeterInit ==
    /\ SimulatorIdle
    /\ instantaneous_data = DefaultData
    /\ last_op = NoOp
    /\ ops = 0
    /\ service \in Services
    /\ SolarIdle
    /\ ReaderIdle

\* a client's request is served: the whole call runs under the runtime's
\* single thread, the block read holds the lock
ServiceCall ==
    /\ service.program # "none"
    /\ ops < MaxOps
    /\ \E req \in Requests :
         LET c == call(instantaneous_data, service.measuring_system,
                       service.serial_number, req)
         IN /\ instantaneous_data' = c.data
            /\ last_op' = [kind |-> "call", req |-> req, result |-> c.result,
                           before |-> instantaneous_data]
    /\ ops' = ops + 1
    /\ UNCHANGED <<service, simulator, solarvars, readervars>>

\* reader's main loop writes a reading to the shared data
ReaderUpdate ==
    /\ service.program = "reader"
    /\ ops < MaxOps
    /\ \E e \in ElectricityReadings :
         instantaneous_data' = ReaderWrite(instantaneous_data, e)
    /\ last_op' = [kind |-> "update"]
    /\ ops' = ops + 1
    /\ UNCHANGED <<service, simulator, solarvars, readervars>>

\* solar-reader's connection loop writes the inverter's data to the shared data
SolarUpdate ==
    /\ service.program = "solar-reader"
    /\ ops < MaxOps
    /\ \E r \in RealtimeData :
         instantaneous_data' = SolarWrite(instantaneous_data, r)
    /\ last_op' = [kind |-> "update"]
    /\ ops' = ops + 1
    /\ UNCHANGED <<service, simulator, solarvars, readervars>>

MeterNext == ServiceCall \/ ReaderUpdate \/ SolarUpdate

MeterSpec == MeterInit /\ [][MeterNext]_vars

---------------------------------------------------------------------------
(* solar-reader: main's reconnect loop and connect_and_run *)

\* main.rs 57 with every error but a timeout ending the loop
IsFatal_ButTimeout(error) == error # "Timeout"

\* main.rs 56-59: the errors main returns, e @ Err(Error::Sqlx(_)) => e?
IsFatal(error) == error = "Sqlx"

\* main.rs 18-50 have run: the shared data is the default, the service is
\* started, the backoff is built, the loop is entered
SolarInit ==
    /\ SimulatorIdle
    /\ instantaneous_data = DefaultData
    /\ last_op = NoOp
    /\ ops = 0
    /\ service \in {sv \in Services : sv.program = "solar-reader"}
    /\ solar_pc = "connect"
    /\ connect_elapsed = 0
    /\ realtime_data = NoRegisters
    /\ result = NoResult
    /\ backoff = ExponentialBackoff
    /\ slept = 0
    /\ ReaderIdle

\* connect_and_run 76-81: the connect under its timeout, `.await??`
SolarConnect ==
    /\ solar_pc = "connect"
    /\ \/ \E d \in Durations :
            /\ connect_elapsed' = Later(connect_elapsed, d)
            /\ \/ solar_pc' = "read" /\ UNCHANGED result
               \/ solar_pc' = "ended" /\ result' = Err("Io")
       \/ /\ connect_elapsed' = Later(connect_elapsed, CallTimeout)
          /\ solar_pc' = "ended" /\ result' = Err("Timeout")
    /\ UNCHANGED <<realtime_data, backoff, slept, metervars, simulator, readervars>>

\* connect_and_run 91-95: the read of the holding registers under its
\* timeout, `.await???`
SolarRead ==
    /\ solar_pc = "read"
    /\ \/ \E d \in Durations :
            /\ connect_elapsed' = Later(connect_elapsed, d)
            /\ \/ \E r \in RealtimeData :
                    realtime_data' = r /\ solar_pc' = "store" /\ UNCHANGED result
               \/ \E e \in {"Modbus", "ExceptionCode"} :
                    solar_pc' = "ended" /\ result' = Err(e) /\ UNCHANGED realtime_data
       \/ /\ connect_elapsed' = Later(connect_elapsed, CallTimeout)
          /\ solar_pc' = "ended" /\ result' = Err("Timeout")
          /\ UNCHANGED realtime_data
    /\ UNCHANGED <<backoff, slept, metervars, simulator, readervars>>

\* connect_and_run 110-140: the tick of the one second interval, the insert
\* with `.await?`, and the update of the shared data
SolarStore ==
    /\ solar_pc = "store"
    /\ \/ /\ instantaneous_data' = SolarWrite(instantaneous_data, realtime_data)
          /\ solar_pc' = "read"
          /\ UNCHANGED result
       \/ /\ solar_pc' = "ended" /\ result' = Err("Sqlx")
          /\ UNCHANGED instantaneous_data
    /\ UNCHANGED <<connect_elapsed, realtime_data, backoff, slept, last_op, ops,
                   service, simulator, readervars>>

\* main.rs 55-66: the match on the result.  A Sqlx error is returned from
\* main; after any other error the backoff is reset when the connection was
\* long, and main starts to sleep for next_backoff().unwrap(), which panics
\* on None.
SolarEnded ==
    /\ solar_pc = "ended"
    /\ IF IsFatal(result.code)
       THEN solar_pc' = "returned" /\ UNCHANGED <<backoff, slept>>
       ELSE LET b == IF connect_elapsed > LongConnection THEN reset(backoff)
                     ELSE backoff
            IN \E n \in next_backoff(b) :
                 /\ backoff' = n.backoff
                 /\ IF n.some
                    THEN solar_pc' = "sleep" /\ slept' = n.duration
                    ELSE solar_pc' = "panicked" /\ UNCHANGED slept
    /\ UNCHANGED <<connect_elapsed, realtime_data, result, metervars, simulator, readervars>>

\* main.rs 65 and 52-54: the sleep is over, the loop takes connect_time and
\* calls connect_and_run again
SolarWake ==
    /\ solar_pc = "sleep"
    /\ solar_pc' = "connect"
    /\ connect_elapsed' = 0
    /\ UNCHANGED <<realtime_data, result, backoff, slept, metervars, simulator, readervars>>

SolarNext == SolarConnect \/ SolarRead \/ SolarStore \/ SolarEnded \/ SolarWake

SolarSpec == SolarInit /\ [][SolarNext]_vars

---------------------------------------------------------------------------
(* reader: the serial_port_reader thread and main's loop *)

\* reader main.rs 14-36 have run: the shared data is the default, the service
\* is started, the channel is made, the thread is spawned, main enters its
\* loop
ReaderInit ==
    /\ SimulatorIdle
    /\ SolarIdle
    /\ instantaneous_data = DefaultData
    /\ last_op = NoOp
    /\ ops = 0
    /\ service \in {sv \in Services : sv.program = "reader"}
    /\ channel = <<>>
    /\ rx_open = TRUE
    /\ thread = "running"
    /\ reader_pc = "recv"
    /\ received = NoReceived
    /\ telegrams = <<>>
    /\ delivered = <<>>

\* serial_port_reader 98-126: one iteration of the loop over the readouts.
\* An error of the read, of to_telegram or of telegram_to_data continues with
\* the next readout; the data is handed to try_send, whose error is printed.
SerialTelegram ==
    /\ thread = "running"
    /\ Len(telegrams) < MaxTelegrams
    /\ \E readout \in Readouts :
         IF readout.kind = "Data"
         THEN LET item == [number |-> Len(telegrams) + 1, data |-> readout.data]
                  sent == try_send(channel, rx_open, item)
              IN /\ channel' = sent.channel
                 /\ telegrams' = Append(telegrams, [kind |-> "Data", sent |-> sent.result])
         ELSE /\ telegrams' = Append(telegrams, [kind |-> readout.kind, sent |-> Err("Skipped")])
              /\ UNCHANGED channel
    /\ UNCHANGED <<thread, rx_open, reader_pc, received, delivered, metervars, solarvars,
                   simulator>>

\* serial_port_reader 98 and 127: the readouts end, the function returns and
\* data_tx is dropped
SerialEnd ==
    /\ thread = "running"
    /\ thread' = "finished"
    /\ UNCHANGED <<channel, rx_open, reader_pc, received, telegrams, delivered, metervars,
                   solarvars, simulator>>

\* main 39-59: data_rx.recv().await.unwrap() and the update of the shared
\* data under the lock.  recv waits while the channel is empty and data_tx
\* lives; with data_tx dropped and the channel empty it is None and the
\* unwrap panics.
MainRecv ==
    /\ reader_pc = "recv"
    /\ IF channel # <<>>
       THEN /\ received' = Head(channel)
            /\ channel' = Tail(channel)
            /\ delivered' = Append(delivered, Head(channel).number)
            /\ instantaneous_data' = ReaderWrite(instantaneous_data, Head(channel).data)
            /\ reader_pc' = "store"
            /\ UNCHANGED rx_open
       ELSE /\ thread = "finished"
            /\ reader_pc' = "panicked"
            /\ rx_open' = FALSE
            /\ UNCHANGED <<received, channel, delivered, instantaneous_data>>
    /\ UNCHANGED <<thread, telegrams, last_op, ops, service, solarvars, simulator>>

\* main 61-86: the inserts of the electricity data and of the slave data,
\* each with `.await?`: the loop goes on, or main returns the Sqlx error and
\* data_rx is dropped
MainStore ==
    /\ reader_pc = "store"
    /\ \/ reader_pc' = "recv" /\ UNCHANGED rx_open
       \/ reader_pc' = "returned" /\ rx_open' = FALSE
    /\ UNCHANGED <<channel, thread, received, telegrams, delivered, metervars,
                   solarvars, simulator>>

ReaderNext == SerialTelegram \/ SerialEnd \/ MainRecv \/ MainStore

ReaderSpec == ReaderInit /\ [][ReaderNext]_vars

---------------------------------------------------------------------------
(* Reference definitions the properties are stated with *)

\* the battery is well formed: capacity >= 0, 0 <= stored <= capacity at the
\* call, rates >= 0, 0 < efficiency <= 1
WellFormed(b, stored0) ==
    /\ b.capacity >= 0
    /\ 0 <= stored0 /\ stored0 <= b.capacity
    /\ b.max_charging_rate >= 0 /\ b.max_discharging_rate >= 0
    /\ 0 < b.efficiency /\ b.efficiency <= Unit

\* every battery the model runs is well formed
AllWellFormed ==
    \A b \in Batteries \cup {Scenarios[k] : k \in 1..Len(Scenarios)} :
        WellFormed(b, b.stored)

InRun == pc \in {"loop", "returned"}

Stepped == InRun /\ last.taken

\* the totals of the raw series from the control point p on: the import and the
\* export between successive control points, with no battery
RECURSIVE RawTotals(_, _, _)
RawTotals(d, p, r) ==
    IF Found(d, p) = {} THEN r
    ELSE LET i == Min(Found(d, p))
             delta == FSub(kwh_balance(d[i]), kwh_balance(p))
         IN  RawTotals(SubSeq(d, i, Len(d)), d[i],
                       IF delta > 0
                         THEN [r EXCEPT !.total_import = FAdd(@, delta)]
                         ELSE [r EXCEPT !.total_export = FSub(@, delta)])

Count(s, x) == Cardinality({i \in 1..Len(s) : s[i] = x})

IsPermutationOf(s, t) ==
    /\ Len(s) = Len(t)
    /\ \A x \in Readings : Count(s, x) = Count(t, x)

\* s with x put behind every element whose time is not later (s sorted)
RECURSIVE StableInsert(_, _)
StableInsert(s, x) ==
    IF s = <<>> THEN <<x>>
    ELSE IF s[Len(s)].time <= x.time THEN Append(s, x)
    ELSE Append(StableInsert(SubSeq(s, 1, Len(s) - 1), x), s[Len(s)])

\* the stable ordering of s by time
RECURSIVE StableSort(_)
StableSort(s) ==
    IF s = <<>> THEN <<>>
    ELSE StableInsert(StableSort(SubSeq(s, 1, Len(s) - 1)), s[Len(s)])

\* the report of run_battery_sim(b, NetZero, d) run on its own, from the
\* control point p with the report r so far (no clamp of the run panics)
RECURSIVE RunFrom(_, _, _, _)
RunFrom(b, d, p, r) ==
    IF Found(d, p) = {} THEN r
    ELSE LET i == Min(Found(d, p))
             it == Iteration(b, p, d[i], r)
         IN  RunFrom([b EXCEPT !.stored = it.stored], SubSeq(d, i, Len(d)), d[i],
                     it.report)

RunAlone(b, d) == RunFrom(b, d, d[1], ZeroReport)

\* the time from reading i of s to the next one
Delta(s, i) == s[i + 1].time - s[i].time

\* the consecutive pairs of s more than the threshold apart
GapsOf(s) == {i \in 1..(Len(s) - 1) : Delta(s, i) > GapThreshold}

\* the timestamps of s
TimesOf(s) == [i \in 1..Len(s) |-> s[i].time]

\* in the timestamps ts, the positions behind k that are a minute or more
\* after position k
LateBehind(ts, k) == {j \in (k + 1)..Len(ts) : ts[j] >= ts[k] + Minute}

\* the pairs of positions a walk over the timestamps ts visits from position k
\* on: from each position to the first one behind it a minute or more later
RECURSIVE ControlPoints(_, _)
ControlPoints(ts, k) ==
    IF LateBehind(ts, k) = {} THEN <<>>
    ELSE LET j == CHOOSE j \in LateBehind(ts, k) : \A i \in LateBehind(ts, k) : j <= i
         IN  <<(<<k, j>>)>> \o ControlPoints(ts, j)

\* the index in the slice of the call at which data_to_go begins
Cursor == Len(loaded_data) - Len(data_to_go)

\* the read of the instantaneous data block
BlockRead == Request("ReadHoldingRegisters", \h0000, 80)

\* the operation is a served read of the instantaneous data block
IsBlockRead(op) == op.kind = "call" /\ op.req = BlockRead

\* the i32 two words hold, low word first
I32OfWords(low, high) ==
    IF high >= Pow2(15) THEN (high - Pow2(16)) * Pow2(16) + low
    ELSE high * Pow2(16) + low

\* the InstantaneousData a client decodes from the words of a block read
Decode(words) ==
    [f \in DOMAIN DefaultData |->
        LET i == CHOOSE k \in 1..Len(FieldOrder) : FieldOrder[k] = f
        IN I32OfWords(words[2 * i - 1], words[2 * i])]

\* the sum of the line powers is the total power
SumHolds(data) == data.w_sum = data.w_l1 + data.w_l2 + data.w_l3

\* the request is a holding register read of one of the eight pairs
IsSupported(req) ==
    /\ req.function = "ReadHoldingRegisters"
    /\ <<req.addr, req.cnt>> \in Supported

\* the telegram numbers of the readings in a channel, oldest first
NumbersOf(ch) == [i \in 1..Len(ch) |-> ch[i].number]

\* the numbers of the telegrams whose reading try_send has queued, in the
\* order the thread read them
RECURSIVE Queued(_, _)
Queued(ts, i) ==
    IF i > Len(ts) THEN <<>>
    ELSE (IF ts[i].sent.ok THEN <<i>> ELSE <<>>) \o Queued(ts, i + 1)

---------------------------------------------------------------------------
(* Properties *)

\* C1: for well-formed batteries, after every step's mutation of
\* battery.stored, 0 <= stored <= capacity.
C1_StoredWithinCapacity ==
    (AllWellFormed /\ Stepped)
    => (0 <= battery.stored /\ battery.stored <= battery.capacity)

\* C2: in every step simulated_delta = real_delta + clamped_charging, and
\* total_import - total_export equals the sum of the simulated deltas of the
\* steps executed so far (as an exact difference and sum, or else with both
\* computed in f32).
C2_Conservation ==
    InRun =>
        /\ last.taken =>
             last.simmed_change_in_period
                 = FAdd(last.real_change_in_period, last.clamped_charging)
        /\ \/ report.total_import - report.total_export = sum_simmed.exact
           \/ FSub(report.total_import, report.total_export) = sum_simmed.f32

\* C3: with capacity 0, both rates 0 and stored 0, every step has clamped = 0
\* and stored = 0, and the totals are those of the raw series.
C3_BaselineIdentity ==
    (InRun /\ battery.capacity = 0 /\ battery.max_charging_rate = 0
           /\ battery.max_discharging_rate = 0)
    => /\ battery.stored = 0
       /\ last.taken => last.clamped_charging = 0
       /\ RawTotals(data_to_go, prev, report)
              = RawTotals(loaded_data, loaded_data[1], ZeroReport)
       /\ pc = "returned"
              => report = RawTotals(loaded_data, loaded_data[1], ZeroReport)

C3_Witness ==
    /\ pc = "returned" /\ battery.capacity = 0 /\ battery.max_charging_rate = 0
    /\ battery.max_discharging_rate = 0
    /\ report.total_import > 0 /\ report.total_export > 0

\* C4: within a run the totals start at 0 and stay >= 0, and each step adds a
\* non-negative amount to exactly one of them and leaves the other unchanged.
C4_Monotonic ==
    [][ /\ (pc = "call" /\ pc' = "loop") => report' = ZeroReport
        /\ (pc = "loop" /\ pc' = "loop") =>
             /\ report'.total_import >= 0 /\ report'.total_export >= 0
             /\ \/ /\ report'.total_import >= report.total_import
                   /\ report'.total_import
                          = FAdd(report.total_import, last'.simmed_change_in_period)
                   /\ last'.simmed_change_in_period >= 0
                   /\ report'.total_export = report.total_export
                \/ /\ report'.total_export >= report.total_export
                   /\ report'.total_export
                          = FAdd(report.total_export, -last'.simmed_change_in_period)
                   /\ -last'.simmed_change_in_period >= 0
                   /\ report'.total_import = report.total_import
        /\ (pc = "loop" /\ pc' = "returned") => report' = report ]_vars

C4_Witness ==
    Stepped /\ report.total_import > 0 /\ report.total_export > 0
            /\ last.clamped_charging # 0

\* C5: run_battery_sim on an empty sequence does not fail and returns a Report
\* with total_import = 0 and total_export = 0.
C5_EmptyReturnsZero ==
    (entry = "run_battery_sim" /\ loaded_data = <<>> /\ pc # "call")
    => (pc = "returned" /\ report = ZeroReport)

\* C6: a discharge (clamped < 0) lowers stored by exactly |clamped|; a charge
\* (clamped > 0) raises stored by clamped * efficiency.
C6_LosslessDischarge ==
    Stepped =>
        /\ last.clamped_charging < 0
             => last.stored = FAdd(last.stored_before, last.clamped_charging)
        /\ last.clamped_charging > 0
             => last.stored = FAdd(last.stored_before,
                                   FMul(last.clamped_charging, battery.efficiency))

\* the goal lies inside the rate clamp range and the capacity clamp range
GoalUnclamped ==
    /\ last.rate_min <= last.charging_goal /\ last.charging_goal <= last.rate_max
    /\ last.cap_min <= last.charging_goal /\ last.charging_goal <= last.cap_max

\* C7: NetZero proposes -(current.kwh_balance - previous.kwh_balance); when the
\* goal is inside both clamp ranges, clamped = goal, simulated_delta = 0, stored
\* changes by goal * efficiency and neither total changes.
C7_NetZeroUnclamped ==
    Stepped =>
        /\ last.charging_goal
               = -(FSub(kwh_balance(last.curr), kwh_balance(last.prev)))
        /\ GoalUnclamped =>
             /\ last.clamped_charging = last.charging_goal
             /\ last.simmed_change_in_period = 0
             /\ battery.stored = FAdd(last.stored_before,
                                      FMul(last.charging_goal, battery.efficiency))
             /\ report = last.report_before

C7_Witness ==
    Stepped /\ GoalUnclamped /\ last.charging_goal # 0
            /\ battery.stored # last.stored_before

\* C8 as stated: NetZero asks to charge on net import and to discharge on net
\* export.
C8_ChargeOnImport ==
    Stepped =>
        /\ kwh_balance(last.curr) > kwh_balance(last.prev) => last.charging_goal > 0
        /\ kwh_balance(last.curr) < kwh_balance(last.prev) => last.charging_goal < 0

\* C8 amended: NetZero asks to discharge on net import (kwh_balance increased)
\* and to charge on net export (kwh_balance decreased).
C8_DischargeOnImport ==
    Stepped =>
        /\ kwh_balance(last.curr) > kwh_balance(last.prev) => last.charging_goal < 0
        /\ kwh_balance(last.curr) < kwh_balance(last.prev) => last.charging_goal > 0

C8_Witness ==
    /\ Stepped /\ kwh_balance(last.curr) > kwh_balance(last.prev)
    /\ last.clamped_charging < 0

\* C9: the sequence main hands to the simulation is ordered non-decreasingly by
\* timestamp and is a permutation of the loaded sequence.
C9_SortedPermutation ==
    (entry = "main" /\ pc \notin {"main", "exit"})
    => (is_sorted_by_key(loaded_data) /\ IsPermutationOf(loaded_data, input))

C9_Witness ==
    /\ entry = "main" /\ pc = "call" /\ ~is_sorted_by_key(input)
    /\ \E i \in 1..(Len(input) - 1) : input[i].time = input[i + 1].time

\* C10: readings with equal timestamps keep their relative input order in the
\* sequence main hands to the simulation.
C10_StableOrder ==
    (entry = "main" /\ pc \notin {"main", "exit"})
    => loaded_data = StableSort(input)

\* C11: the preparation applied to the sequence it produced leaves exactly that
\* sequence, and an input already ordered non-decreasingly by timestamp comes
\* out with no element moved.
C11_Idempotent ==
    (entry = "main" /\ pc \notin {"main", "exit"})
    => /\ Prepare(loaded_data) = {loaded_data}
       /\ is_sorted_by_key(input) => loaded_data = input

C11_Witness ==
    /\ entry = "main" /\ pc = "returned" /\ loaded_data # input
    /\ \E i \in 1..(Len(loaded_data) - 1) :
           /\ loaded_data[i].time = loaded_data[i + 1].time
           /\ loaded_data[i] # loaded_data[i + 1]

C13_DegenerateRuns ==
    (loaded_data # <<>> /\ battery.capacity = 0 /\ battery.efficiency = 0)
    => /\ pc # "panic"
       /\ Stepped => (last.cap_min = 0 /\ last.clamped_charging = 0)
       /\ pc = "returned" => report = RunAlone(Baseline, loaded_data)

\* C14: cost(report) = total_import * IMPORT_COST + total_export * EXPORT_COST
\* with IMPORT_COST > 0 > EXPORT_COST; the comparison reports the import and
\* the export of the report less the baseline's, and as cost delta
\* cost(report) - cost(baseline) (the difference taken exactly, or else in
\* f32, and printed like the other numbers); a report compared with an equal
\* one gives three deltas of 0.
C14_Comparison ==
    /\ IMPORT_COST > 0 /\ EXPORT_COST < 0
    /\ shown.taken =>
         LET r == shown.self
             b == shown.baseline
         IN  /\ shown.cost = Fmt2(cost(r))
             /\ shown.import_delta = Fmt2(FSub(r.total_import, b.total_import))
             /\ shown.export_delta = Fmt2(FSub(r.total_export, b.total_export))
             /\ \/ shown.cost_delta = Fmt2(FSub(cost(r), cost(b)))
                \/ shown.cost_delta
                       = Hundredths((r.total_import - b.total_import) * IMPORT_COST
                                    + (r.total_export - b.total_export) * EXPORT_COST,
                                    Unit * Unit)
             /\ r = b => /\ shown.import_delta = 0
                         /\ shown.export_delta = 0
                         /\ shown.cost_delta = 0

\* C15: in every step curr is the first reading of data_to_go at least a minute
\* after prev (every reading before it is less than a minute after prev, and
\* the step computes with prev and curr only), the cursor moves to curr, and
\* the loop is left for the return exactly when no such reading remains.
C15_Advance ==
    [][ pc = "loop" =>
          LET Late(j) == data_to_go[j].time >= prev.time + Minute
          IN  /\ pc' = "loop" =>
                   \E i \in 1..Len(data_to_go) :
                       /\ Late(i)
                       /\ \A j \in 1..(i - 1) : ~Late(j)
                       /\ last'.prev = prev /\ last'.curr = data_to_go[i]
                       /\ prev' = data_to_go[i]
                       /\ data_to_go' = SubSeq(data_to_go, i, Len(data_to_go))
              /\ pc' = "returned" <=> (\A j \in 1..Len(data_to_go) : ~Late(j)) ]_vars

C15_Witness ==
    /\ pc = "returned" /\ steps >= 2
    /\ Len(loaded_data) - Len(data_to_go) > steps

\* C16: on a non-empty sequence, ordered or not, the call of run_battery_sim
\* enters the loop at cursor 0, every step moves the cursor strictly forward
\* inside the sequence, so the steps of a run number at most its readings less
\* one, and the loop is left when the find yields nothing.
C16_Terminates ==
    [][ /\ (pc = "call" /\ loaded_data # <<>>)
             => (pc' = "loop" /\ Cursor' = 0 /\ steps' = 0)
        /\ (pc = "loop" /\ pc' = "loop")
             => /\ Cursor' > Cursor
                /\ Cursor' < Len(loaded_data)
                /\ steps' = steps + 1
                /\ steps' <= Cursor'
                /\ steps' <= Len(loaded_data) - 1
        /\ pc = "loop" => pc' \in {"loop", "returned", "panic"} ]_vars

C16_Witness ==
    /\ entry = "run_battery_sim" /\ pc = "returned"
    /\ ~is_sorted_by_key(loaded_data) /\ steps >= 1

\* C17: for well-formed batteries, in every step curr is at least a minute
\* after prev, dt_hours is that difference in hours and at least 1/60, and
\* -max_discharging_rate * dt_hours <= clamped <= max_charging_rate * dt_hours;
\* a battery with max_charging_rate = 0 never charges and one with
\* max_discharging_rate = 0 never discharges.
C17_RateClamp ==
    (AllWellFormed /\ Stepped)
    => /\ last.curr.time - last.prev.time >= Minute
       /\ last.timediff_h = TimediffH(last.prev, last.curr)
       /\ last.timediff_h >= FDiv(Lit(1, 1), Lit(Minute, 1))
       /\ last.rate_min = FMul(-battery.max_discharging_rate, last.timediff_h)
       /\ last.rate_max = FMul(battery.max_charging_rate, last.timediff_h)
       /\ last.rate_min <= last.clamped_charging
       /\ last.clamped_charging <= last.rate_max
       /\ battery.max_charging_rate = 0 => last.clamped_charging <= 0
       /\ battery.max_discharging_rate = 0 => last.clamped_charging >= 0

\* C18: in every step -stored/efficiency <= clamped <= (capacity - stored) /
\* efficiency, with stored as it was before the step; an empty battery never
\* discharges and a full one never charges; with stored = 0 a step with net
\* import adds the whole real change to total_import.
C18_CapacityClamp ==
    (AllWellFormed /\ Stepped)
    => /\ last.cap_min = FDiv(-last.stored_before, battery.efficiency)
       /\ last.cap_max = FDiv(FSub(battery.capacity, last.stored_before),
                              battery.efficiency)
       /\ last.cap_min <= last.clamped_charging
       /\ last.clamped_charging <= last.cap_max
       /\ last.stored_before = 0 => last.clamped_charging >= 0
       /\ last.stored_before = battery.capacity => last.clamped_charging <= 0
       /\ (last.stored_before = 0 /\ last.real_change_in_period > 0)
            => /\ report.total_import
                      = FAdd(last.report_before.total_import,
                             last.real_change_in_period)
               /\ report.total_export = last.report_before.total_export

C18_Witness ==
    /\ Stepped /\ battery.capacity > 0 /\ battery.max_discharging_rate > 0
    /\ last.stored_before = 0 /\ last.real_change_in_period > 0
    /\ last.report_before.total_import > 0

\* C19 as stated: a step whose simulated change is exactly 0 takes the import
\* branch, and both totals keep their values.
C19_ZeroImports ==
    (Stepped /\ last.simmed_change_in_period = 0)
    => (last.branch = "import" /\ report = last.report_before)

\* C19 amended: a step whose simulated change is exactly 0 takes the export
\* branch (total_export -= 0), and both totals keep their values.
C19_ZeroExports ==
    (Stepped /\ last.simmed_change_in_period = 0)
    => (last.branch = "export" /\ report = last.report_before)

C19_Witness ==
    /\ Stepped /\ last.simmed_change_in_period = 0 /\ last.clamped_charging # 0
    /\ report.total_import > 0 /\ report.total_export > 0

\* C20: over the ordered sequence the gap count is the number of consecutive
\* pairs more than 5 seconds apart and the largest gap is the greatest of their
\* time differences (zero when there is none; 5 seconds itself is no gap); the
\* pass changes neither the sequence nor any report, and every later Report is
\* the one the scenario gives on its own.
C20_GapDiagnostic ==
    [][ /\ pc = "gaps" =>
             /\ is_sorted_by_key(loaded_data)
             /\ gaps' = Cardinality(GapsOf(loaded_data))
             /\ \A i \in GapsOf(loaded_data) : largest_gap' >= Delta(loaded_data, i)
             /\ IF GapsOf(loaded_data) = {} THEN largest_gap' = 0
                ELSE \E i \in GapsOf(loaded_data) :
                         largest_gap' = Delta(loaded_data, i)
             /\ loaded_data' = loaded_data
             /\ report' = report /\ baseline_report' = baseline_report
        /\ (entry = "main" /\ pc = "loop" /\ pc' = "returned")
             => report' = RunAlone(Scenarios[scenario], loaded_data)
        /\ (entry = "main" /\ pc \notin {"main", "gaps"})
             => (gaps' = gaps /\ largest_gap' = largest_gap) ]_vars

C20_Witness ==
    /\ entry = "main" /\ pc = "returned" /\ gaps >= 2
    /\ \E i \in 1..(Len(loaded_data) - 1) : Delta(loaded_data, i) = GapThreshold
    /\ \E i \in GapsOf(loaded_data) : Delta(loaded_data, i) < largest_gap
    /\ report # ZeroReport

\* C21: for well-formed batteries under NetZero, in every step the simulated
\* change is 0 or has the sign of the real change and is no larger in
\* magnitude, and at the end of a run neither total exceeds the total of the
\* baseline over the same sequence.
C21_NoLargerThanReal ==
    (AllWellFormed /\ Stepped)
    => /\ \/ last.simmed_change_in_period = 0
          \/ /\ (last.simmed_change_in_period > 0) = (last.real_change_in_period > 0)
             /\ last.real_change_in_period # 0
       /\ Abs(last.simmed_change_in_period) <= Abs(last.real_change_in_period)
       /\ pc = "returned" =>
            /\ report.total_import <= RunAlone(Baseline, loaded_data).total_import
            /\ report.total_export <= RunAlone(Baseline, loaded_data).total_export

\* C22: after every step the energy discharged so far (the sum of -clamped
\* over the steps with clamped < 0) is at most the energy stored at the call
\* plus efficiency times the energy charged so far (the sum of clamped over the
\* steps with clamped > 0), with the right-hand side exact or else in f32.
C22_RoundTripBound ==
    Stepped =>
        \/ energy.discharged * Unit
               <= energy.initial * Unit + battery.efficiency * energy.charged
        \/ energy.discharged
               <= FAdd(energy.initial, FMul(battery.efficiency, Round(energy.charged, 1)))

\* C23: the (prev, curr) pairs a run visits are those a walk over the
\* timestamps alone gives, whatever the battery: at every point of a run the
\* pairs visited so far are the first ones of that walk, and at the return
\* they are all of them.
C23_TimesOnly ==
    InRun =>
        LET points == ControlPoints(TimesOf(loaded_data), 1)
        IN  /\ Len(visited) = steps /\ steps <= Len(points)
            /\ visited = SubSeq(points, 1, steps)
            /\ last.taken =>
                 /\ last.prev = loaded_data[visited[steps][1]]
                 /\ last.curr = loaded_data[visited[steps][2]]
            /\ pc = "returned" => visited = points

C23_Witness ==
    /\ entry = "main" /\ pc = "returned" /\ scenario > 1 /\ steps >= 2
    /\ Cursor > steps
    /\ report # baseline_report /\ battery.stored > 0

\* C24: a ReadHoldingRegisters request for the instantaneous data block
\* (address 0x0000, count 80) leaves the shared InstantaneousData unchanged,
\* and a block read that directly follows a block read, with no producer
\* update in between, returns the same register words.
C24_ReadLeavesData ==
    [][(ops' = ops + 1 /\ IsBlockRead(last_op')) =>
          /\ instantaneous_data' = instantaneous_data
          /\ IsBlockRead(last_op) => last_op'.result = last_op.result]_vars

\* C25: under every interleaving of producer updates and service calls the
\* shared InstantaneousData satisfies w_sum = w_l1 + w_l2 + w_l3, and so does
\* every snapshot a block read returns.
C25_SumConsistent ==
    /\ SumHolds(instantaneous_data)
    /\ IsBlockRead(last_op) => SumHolds(Decode(last_op.result.words))

\* C26: a request that is not a ReadHoldingRegisters of one of the eight
\* supported (address, count) pairs is answered with
\* ExceptionCode::IllegalFunction and leaves the shared InstantaneousData
\* unchanged.
C26_Unsupported ==
    [][(ops' = ops + 1 /\ last_op'.kind = "call" /\ ~IsSupported(last_op'.req)) =>
          /\ last_op'.result = Err("IllegalFunction")
          /\ instantaneous_data' = instantaneous_data]_vars

C26_Witness ==
    /\ last_op.kind = "call"
    /\ last_op.req.function = "ReadHoldingRegisters"
    /\ last_op.req.addr = \h0000 /\ last_op.req.cnt = 79
    /\ last_op.result = Err("IllegalFunction")
    /\ instantaneous_data = last_op.before
    /\ instantaneous_data.w_sum # 0

\* C27: connect_and_run never returns Ok.  When it has ended with an error
\* other than a Sqlx error, main's next step is to sleep for the next backoff
\* interval, of the backoff reset when and only when the connection took more
\* than 120 seconds, and its step after the sleep is to connect again; when it
\* has ended with a Sqlx error main returns that error.  Main stops in no
\* other way: it is at a step of the loop or it has returned the Sqlx error.
C27_Reconnect ==
    /\ [](solar_pc \in {"ended", "sleep", "returned"} =>
             ~result.ok /\ result.code \in Errors)
    /\ [](\/ solar_pc \in {"connect", "read", "store", "ended", "sleep"}
          \/ solar_pc = "returned" /\ result.code = "Sqlx")
    /\ [][/\ (solar_pc = "ended" /\ result.code # "Sqlx") =>
                /\ solar_pc' = "sleep"
                /\ slept' \in RandomizedIntervals(
                       IF connect_elapsed > LongConnection
                       THEN backoff.initial_interval ELSE backoff.current_interval)
                /\ connect_elapsed > LongConnection =>
                       backoff'.current_interval = increment_current_interval(reset(backoff))
                /\ ~(connect_elapsed > LongConnection) =>
                       backoff'.current_interval >= backoff.current_interval
          /\ solar_pc = "sleep" => solar_pc' = "connect"
          /\ (solar_pc = "ended" /\ result.code = "Sqlx") =>
                solar_pc' = "returned" /\ result' = result
          /\ solar_pc' \in {"returned", "panicked"} =>
                solar_pc' = "returned" /\ result.code = "Sqlx"]_vars

C27_Witness ==
    /\ solar_pc = "connect"
    /\ result.code = "Timeout"
    /\ slept > backoff.max_interval
    /\ backoff.current_interval = backoff.max_interval
    /\ instantaneous_data # DefaultData

\* C28: a step of the serial thread leaves the thread running whatever the
\* state of the channel: with the channel full or closed the new reading is
\* dropped and the channel is as before, with a free slot the reading is
\* queued last, and a read, parse or conversion error leaves the channel as
\* it is.  The readings main has received, followed by those in the channel,
\* are the readings queued, in the order the thread read them and each once.
C28_Pipeline ==
    /\ [](delivered \o NumbersOf(channel) = Queued(telegrams, 1))
    /\ [][Len(telegrams') = Len(telegrams) + 1 =>
            LET t == telegrams'[Len(telegrams')]
            IN /\ thread' = "running"
               /\ t.kind # "Data" => channel' = channel
               /\ (t.kind = "Data" /\ (Len(channel) >= ChannelSlots \/ ~rx_open)) =>
                      channel' = channel /\ ~t.sent.ok
               /\ (t.kind = "Data" /\ Len(channel) < ChannelSlots /\ rx_open) =>
                      /\ t.sent.ok
                      /\ Len(channel') = Len(channel) + 1
                      /\ SubSeq(channel', 1, Len(channel)) = channel
                      /\ channel'[Len(channel')].number = Len(telegrams')]_vars

C28_Witness ==
    /\ Len(telegrams) = 4
    /\ telegrams[1].kind = "ParseError"
    /\ telegrams[4].sent = Err("Full")
    /\ delivered = <<2>>
    /\ NumbersOf(channel) = <<3>>
    /\ reader_pc = "store"

====
